---- MODULE Spec2Model ----
(***************************************************************************)
(* A model of the reddit-rss digest pipeline: the run orchestrator of       *)
(* run_digest.py with its seven fallible stages, the seen-ID store of       *)
(* pipeline/deduplicate.py, the filter engine of pipeline/filter_posts.py,  *)
(* the comment extraction of pipeline/extract_comments.py, the feature      *)
(* derivation of pipeline/render_html.py and the memory file of             *)
(* pipeline/update_memory.py.                                               *)
(*                                                                          *)
(* Spec is one run of the orchestrator.  SpecFilter, SpecSeen, SpecFeatures,*)
(* SpecExtract and SpecMemory each call one stage on enumerated inputs, and *)
(* SpecRepeat runs the orchestrator twice over one seen-ID store.  The      *)
(* stage specifications keep their position in pc and their input in pre.   *)
(*                                                                          *)
(* Text is modelled as a sequence of one-character strings, so that         *)
(* lower(), substring search and the episode pattern are computed, not      *)
(* assumed.  A JSON file is a sequence of tokens.                           *)
(***************************************************************************)
EXTENDS Integers, Sequences, FiniteSets, TLC

VARIABLES
    pc,          \* position of run_pipeline: the stage about to run
    feed,        \* what the RSS endpoint serves to this run (entries)
    raw_xml,     \* the feed text fetch() returned
    posts,       \* the orchestrator's working post list
    metrics,     \* the run-metrics record
    log,         \* per-stage outcome of this run, as the run log records it
    pre,         \* snapshots: the two files as the run found them, and the working
                 \* list as it was when dedup / filter / comments started
    seen_file,   \* data/seen_ids.json: [exists, text]
    claude_file, \* CLAUDE.md: [exists, lines]
    digest,      \* data/digests: the latest slot, the dated file, error.txt
    saved,       \* the metrics artifact written by _save_metrics (or none)
    runs,        \* the number of this run: its timestamp in the memory file
    flt_in,      \* filter_posts: the input list
    flt_out,     \* filter_posts: the returned list
    flt_log,     \* filter_posts: per input post, the stage that dropped it (0: kept)
    flt_pc,      \* filter_posts: "in" before the call, "out" after it
    sv_in,       \* save_seen_ids: the ID list handed to it
    sv_loaded,   \* load_seen_ids: the list it returned
    sv_pc        \* seen-ID round trip: "in", "saved", "save_failed", "loaded"

vars == << pc, feed, raw_xml, posts, metrics, log, pre, seen_file, claude_file,
           digest, saved, runs, flt_in, flt_out, flt_log, flt_pc,
           sv_in, sv_loaded, sv_pc >>

run_vars == << pc, feed, raw_xml, posts, metrics, log, pre, claude_file,
               digest, saved, runs >>

flt_vars == << flt_in, flt_out, flt_log, flt_pc >>

sv_vars == << sv_in, sv_loaded, sv_pc >>

----------------------------------------------------------------------------
(* Bounds of the model *)

\* longest list handed to filter_posts in the filter specification
MaxFilterLen == 3

\* how far past MAX_SEEN_IDS the saved ID lists go
MaxOver == 3

\* entries in one feed
MaxFeed == 2

----------------------------------------------------------------------------
(* Text *)

UpperToLower ==
    [ A |-> "a", B |-> "b", C |-> "c", D |-> "d", E |-> "e", F |-> "f", G |-> "g",
      H |-> "h", I |-> "i", J |-> "j", K |-> "k", L |-> "l", M |-> "m", N |-> "n",
      O |-> "o", P |-> "p", Q |-> "q", R |-> "r", S |-> "s", T |-> "t", U |-> "u",
      V |-> "v", W |-> "w", X |-> "x", Y |-> "y", Z |-> "z" ]

LowerChar(c) == IF c \in DOMAIN UpperToLower THEN UpperToLower[c] ELSE c

\* str.lower()
lower(s) == [i \in 1..Len(s) |-> LowerChar(s[i])]

IsDigit(c) == c \in {"0", "1", "2", "3", "4", "5", "6", "7", "8", "9"}

\* sub at offset i of s (0-based offset)
MatchAt(s, i, sub) ==
    /\ i + Len(sub) <= Len(s)
    /\ \A j \in 1..Len(sub) : s[i + j] = sub[j]

\* Python's "sub in s"
Contains(s, sub) == \E i \in 0..(Len(s) - Len(sub)) : MatchAt(s, i, sub)

DigitAt(s, i) == i >= 1 /\ i <= Len(s) /\ IsDigit(s[i])

----------------------------------------------------------------------------
(* pipeline/filter_posts.py: the filter engine *)

MIN_COMMENTS == 50

EPISODE_THRESHOLD == 20

EXCLUDED_KEYWORDS ==
    { <<"t", "r", "a", "i", "l", "e", "r">>,
      <<"t", "e", "a", "s", "e", "r">>,
      <<"f", "i", "r", "s", "t", " ", "l", "o", "o", "k">>,
      <<"c", "a", "s", "t">>,
      <<"c", "a", "s", "t", "i", "n", "g">>,
      <<"r", "e", "n", "e", "w", "e", "d">>,
      <<"c", "a", "n", "c", "e", "l", "l", "e", "d">>,
      <<"c", "a", "n", "c", "e", "l", "e", "d">>,
      <<"s", "t", "r", "e", "a", "m", "i", "n", "g", " ", "o", "n">>,
      <<"c", "o", "m", "i", "n", "g", " ", "t", "o">>,
      <<"m", "o", "v", "e", "s", " ", "t", "o">>,
      <<"p", "r", "e", "m", "i", "e", "r", "e", " ", "d", "a", "t", "e">>,
      <<"r", "e", "l", "e", "a", "s", "e", " ", "d", "a", "t", "e">> }

ALLOWED_FLAIRS ==
    { <<"d", "i", "s", "c", "u", "s", "s", "i", "o", "n">>,
      <<"r", "e", "v", "i", "e", "w">>,
      <<"e", "p", "i", "s", "o", "d", "e", " ", "d", "i", "s", "c", "u", "s", "s", "i", "o", "n">>,
      <<"w", "e", "e", "k", "l", "y", " ", "r", "e", "c", " ", "t", "h", "r", "e", "a", "d">>,
      <<"o", "f", "f", "i", "c", "i", "a", "l">> }

BLOCKED_FLAIRS ==
    { <<"t", "r", "a", "i", "l", "e", "r">>,
      <<"c", "a", "s", "t", "i", "n", "g">>,
      <<"n", "e", "w", "s">>,
      <<"p", "r", "e", "m", "i", "e", "r", "e", " ", "d", "a", "t", "e">> }

\* S\d{1,2}E\d{1,2} matched at 1-based position i of the lowercased text
\* (re.IGNORECASE): "s", one or two digits, "e", a digit
EpisodeCodeAt(s, i) ==
    /\ i <= Len(s) /\ s[i] = "s"
    /\ DigitAt(s, i + 1)
    /\ \/ (i + 2 <= Len(s) /\ s[i + 2] = "e" /\ DigitAt(s, i + 3))
       \/ (DigitAt(s, i + 2) /\ i + 3 <= Len(s) /\ s[i + 3] = "e" /\ DigitAt(s, i + 4))

\* "Episode \d+" or "Season \d+" matched at offset i of the lowercased text
WordNumberAt(s, i, word) == MatchAt(s, i, word) /\ DigitAt(s, i + Len(word) + 1)

\* EPISODE_RE.search(text)
EPISODE_RE_search(text) ==
    LET s == lower(text)
    IN  \E i \in 0..Len(s) :
            \/ EpisodeCodeAt(s, i + 1)
            \/ WordNumberAt(s, i, <<"e", "p", "i", "s", "o", "d", "e", " ">>)
            \/ WordNumberAt(s, i, <<"s", "e", "a", "s", "o", "n", " ">>)

_is_episode_discussion(post) ==
    \/ EPISODE_RE_search(post.title)
    \/ EPISODE_RE_search(post.flair)
    \/ Contains(lower(post.flair), <<"e", "p", "i", "s", "o", "d", "e", " ", "d", "i", "s", "c", "u", "s", "s", "i", "o", "n">>)

\* 1. keyword filter
keyword_drop(post) ==
    LET title_lower == lower(post.title)
    IN  \E kw \in EXCLUDED_KEYWORDS : Contains(title_lower, kw)

\* 2. flair filter; an empty flair is never gated
flair_drop(post) ==
    /\ post.flair # <<>>
    /\ \/ lower(post.flair) \in BLOCKED_FLAIRS
       \/ (ALLOWED_FLAIRS # {} /\ lower(post.flair) \notin ALLOWED_FLAIRS)

\* one threshold for every post
threshold_always_min(is_episode) == MIN_COMMENTS

\* threshold = 20 if is_episode else MIN_COMMENTS
count_threshold(is_episode) == IF is_episode THEN EPISODE_THRESHOLD ELSE MIN_COMMENTS

\* 3. comment count filter
count_drop(post) ==
    /\ post.num_comments > 0
    /\ post.num_comments < count_threshold(_is_episode_discussion(post))

\* a ratio stage without the exemption of episode posts
ratio_drop_no_exemption(post) ==
    /\ post.score > 0
    /\ 10 * post.num_comments < post.score

\* 4. engagement ratio filter: num_comments / score < 0.1 on a positive score.
\* The quotient of two integers is a correctly rounded double and 0.1 is the
\* double nearest to 1/10, so for scores below 10^15 the test is
\* 10 * num_comments < score
ratio_drop(post) ==
    /\ ~ _is_episode_discussion(post)
    /\ post.score > 0
    /\ 10 * post.num_comments < post.score

\* the stage of the loop body that drops the post (the "Filtered (...)" log
\* line it writes), 0 when the post is appended to filtered
drop_stage(post) ==
    IF keyword_drop(post) THEN 1
    ELSE IF flair_drop(post) THEN 2
    ELSE IF count_drop(post) THEN 3
    ELSE IF ratio_drop(post) THEN 4
    ELSE 0

\* an insertion that puts x ahead of the elements with an equal key
InsertDesc_unstable(s, x) ==
    LET k == Cardinality({i \in 1..Len(s) : s[i].num_comments > x.num_comments})
    IN  SubSeq(s, 1, k) \o <<x>> \o SubSeq(s, k + 1, Len(s))

\* list.sort(key=num_comments, reverse=True) inserts x behind every element
\* whose key is >= its own: equal keys keep their order
InsertDesc(s, x) ==
    LET k == Cardinality({i \in 1..Len(s) : s[i].num_comments >= x.num_comments})
    IN  SubSeq(s, 1, k) \o <<x>> \o SubSeq(s, k + 1, Len(s))

RECURSIVE sort_by_comments_desc(_)
sort_by_comments_desc(s) ==
    IF s = <<>> THEN <<>>
    ELSE InsertDesc(sort_by_comments_desc(SubSeq(s, 1, Len(s) - 1)), s[Len(s)])

Kept(post) == drop_stage(post) = 0

filter_posts(ps) == sort_by_comments_desc(SelectSeq(ps, Kept))

----------------------------------------------------------------------------
(* pipeline/deduplicate.py: the seen-ID store.                              *)
(* A JSON value of the ID list is [k, v]: a string, or another hashable     *)
(* scalar ("num"), or a nested array ("arr", unhashable).  The file text is *)
(* a sequence of tokens [t, v]: brackets, commas and value tokens.          *)

MAX_SEEN_IDS == 200

StrV(id) == [k |-> "str", v |-> id]

TokLB == [t |-> "[", v |-> ""]

TokRB == [t |-> "]", v |-> ""]

TokComma == [t |-> ",", v |-> ""]

TokLBrace == [t |-> "{", v |-> ""]

TokRBrace == [t |-> "}", v |-> ""]

ValueKinds == {"str", "num", "arr"}

\* json.dump of a list
json_dump(ids) ==
    LET n == Len(ids)
        len == IF n = 0 THEN 2 ELSE 2 * n + 1
    IN  [i \in 1..len |->
            IF i = 1 THEN TokLB
            ELSE IF i = len THEN TokRB
            ELSE IF i % 2 = 0 THEN [t |-> ids[i \div 2].k, v |-> ids[i \div 2].v]
            ELSE TokComma]

\* the text is a JSON array of scalars and nested arrays
IsJsonList(text) ==
    LET len == Len(text)
    IN  /\ len >= 2
        /\ text[1] = TokLB
        /\ text[len] = TokRB
        /\ len = 2 \/ len % 2 = 1
        /\ \A i \in 2..(len - 1) :
              IF i % 2 = 0 THEN text[i].t \in ValueKinds ELSE text[i] = TokComma

\* the text is some other JSON document: an object or a scalar
IsJsonOther(text) ==
    \/ text = <<TokLBrace, TokRBrace>>
    \/ (Len(text) = 1 /\ text[1].t \in ValueKinds)

\* json.load: the list, "other" for a document that is no list, or a
\* JSONDecodeError
json_load(text) ==
    IF IsJsonList(text)
    THEN [ok |-> TRUE, is_list |-> TRUE,
          value |-> [i \in 1..((Len(text) - 1) \div 2) |->
                        [k |-> text[2 * i].t, v |-> text[2 * i].v]]]
    ELSE [ok |-> IsJsonOther(text), is_list |-> FALSE, value |-> <<>>]

\* load_seen_ids never raises: a missing file, a decode error and a document
\* that is no list all give the empty list
load_seen_ids(file) ==
    IF ~file.exists THEN <<>>
    ELSE LET data == json_load(file.text)
         IN  IF data.ok /\ data.is_list THEN data.value ELSE <<>>

\* a window that keeps the oldest entries
rolling_window_head(ids) ==
    IF Len(ids) > MAX_SEEN_IDS THEN SubSeq(ids, 1, MAX_SEEN_IDS) ELSE ids

\* ids[-MAX_SEEN_IDS:] when the list is longer than MAX_SEEN_IDS
rolling_window(ids) ==
    IF Len(ids) > MAX_SEEN_IDS
    THEN SubSeq(ids, Len(ids) - MAX_SEEN_IDS + 1, Len(ids))
    ELSE ids

\* The outcomes of save_seen_ids(ids) on the file.  The write is inside a
\* try that logs and swallows: "ok" writes the whole text; "open_failed"
\* (makedirs or open raised) leaves the file as it was; "write_failed" (the
\* dump raised after open truncated the file) leaves a proper prefix of the text.
SaveOutcomes == {"ok", "open_failed", "write_failed"}

save_seen_ids(file, ids, outcome, cut) ==
    LET text == json_dump(rolling_window(ids))
    IN  CASE outcome = "ok" -> [exists |-> TRUE, text |-> text]
          [] outcome = "open_failed" -> file
          [] outcome = "write_failed" ->
                [exists |-> TRUE, text |-> SubSeq(text, 1, IF cut = 0 THEN 0 ELSE Len(text) - 1)]

\* a filter that records what it has seen as it goes
deduplicate_store_marks_seen(file, ps) ==
    save_seen_ids(file, load_seen_ids(file) \o [i \in 1..Len(ps) |-> StrV(ps[i].id)], "ok", 0)

\* deduplicate() reads the store and does not write it
deduplicate_store(file, ps) == file

\* set(load_seen_ids()) raises TypeError on an unhashable element
SeenSetRaises(file) == \E i \in 1..Len(load_seen_ids(file)) : load_seen_ids(file)[i].k = "arr"

\* [p for p in posts if p["id"] not in seen_ids]
deduplicate(file, ps) ==
    LET seen == load_seen_ids(file)
        fresh(p) == \A i \in 1..Len(seen) : seen[i] # StrV(p.id)
    IN  SelectSeq(ps, fresh)

----------------------------------------------------------------------------
(* Post records.  parse() builds them with score 0, num_comments 0 and an   *)
(* empty flair; "comments" and "comments_degraded" are keys a later stage   *)
(* adds: has_comments tells whether the "comments" key is present, and an   *)
(* absent "comments_degraded" reads as FALSE (post.get(..., False)).        *)

NewPost(id, title) ==
    [ id |-> id, title |-> title, score |-> 0, num_comments |-> 0, flair |-> <<>>,
      has_comments |-> FALSE, comments |-> <<>>, comments_degraded |-> FALSE ]

\* what enrich_posts writes into a post on a 200 response
Enriched(post, score, num_comments, flair) ==
    [post EXCEPT !.score = score, !.num_comments = num_comments, !.flair = flair]

T_EPISODE == <<"S", "h", "o", "w", " ", "S", "0", "1", "E", "0", "2">>

T_SEASON == <<"S", "e", "a", "s", "o", "n", " ", "2", " ", "t", "a", "l", "k">>

T_PLAIN == <<"R", "a", "n", "d", "o", "m", " ", "T", "h", "o", "u", "g", "h", "t", "s">>

T_NEARMISS == <<"C", "l", "a", "s", "s", " ", "o", "f", " ", "S", "1", "E">>

T_TRAILER == <<"N", "e", "w", " ", "T", "r", "a", "i", "l", "e", "r">>

F_NONE == <<>>

F_DISCUSSION == <<"D", "i", "s", "c", "u", "s", "s", "i", "o", "n">>

F_EPISODE == <<"E", "p", "i", "s", "o", "d", "e", " ", "D", "i", "s", "c", "u", "s", "s", "i", "o", "n">>

F_NEWS == <<"N", "e", "w", "s">>

F_HUMOR == <<"H", "u", "m", "o", "r">>

\* comment bodies
B_EMPTY == <<>>

B_LOVED == <<"I", " ", "l", "o", "v", "e", "d", " ", "t", "h", "i", "s", ",", " ", "a", "m", "a", "z", "i", "n", "g">>

B_HATED == <<"t", "e", "r", "r", "i", "b", "l", "e", ",", " ", "a", "w", "f", "u", "l", ",", " ", "I", " ", "h", "a", "t", "e", "d", " ", "i", "t">>

B_OVERRATED == <<"O", "v", "e", "r", "r", "a", "t", "e", "d", " ", "b", "u", "t", " ", "g", "r", "e", "a", "t">>

B_AGREE == <<"Y", "e", "s", " ", "e", "x", "a", "c", "t", "l", "y", " ", "t", "h", "i", "s">>

B_DISAGREE == <<"N", "o", ",", " ", "n", "o", "p", "e", ".", " ", "A", "c", "t", "u", "a", "l", "l", "y", " ", "w", "r", "o", "n", "g">>

B_HOWEVER == <<"h", "o", "w", "e", "v", "e", "r">>

B_BEST == <<"B", "e", "s", "t", " ", "b", "e", "s", "t", " ", "B", "E", "S", "T">>

B_YES_NO == <<"y", "e", "s", " ", "n", "o", " ", "b", "u", "t">>

B_PRAISE == <<"a", "m", "a", "z", "i", "n", "g", " ", "b", "r", "i", "l", "l", "i", "a", "n", "t", " ", "p", "e", "r", "f", "e", "c", "t", " ", "g", "r", "e", "a", "t", " ", "l", "o", "v", "e">>

B_PAN == <<"b", "o", "r", "i", "n", "g", " ", "d", "u", "l", "l", " ", "b", "l", "a", "n", "d", " ", "w", "e", "a", "k", " ", "p", "o", "o", "r">>

B_NAH == <<"n", "a", "h", ",", " ", "d", "i", "s", "a", "g", "r", "e", "e">>

----------------------------------------------------------------------------
(* pipeline/parse_posts.py: feed entries to post records.                   *)
(* An entry is [id_attr, link_id, title]: id_attr is entry.id when it is    *)
(* present and no URL ("" otherwise), link_id the id in the entry link's    *)
(* /comments/<id> ("" when the link has none).                              *)

T3 == [a |-> "t3_a", b |-> "t3_b", c |-> "t3_c"]

\* post_id of an entry, "" when none can be extracted
EntryPostId(e) ==
    IF e.id_attr # "" THEN e.id_attr
    ELSE IF e.link_id # "" THEN T3[e.link_id]
    ELSE ""

HasPostId(e) == EntryPostId(e) # ""

\* parse(raw_xml): entries without an id are skipped
parse(entries) ==
    LET kept == SelectSeq(entries, HasPostId)
    IN  [i \in 1..Len(kept) |-> NewPost(EntryPostId(kept[i]), kept[i].title)]

----------------------------------------------------------------------------
(* pipeline/extract_comments.py: the comments of one post *)

MAX_COMMENTS_PER_POST == 3

\* stable insertion by score, descending (raw_comments.sort(reverse=True))
InsertByScore(s, c) ==
    LET k == Cardinality({i \in 1..Len(s) : s[i].score >= c.score})
    IN  SubSeq(s, 1, k) \o <<c>> \o SubSeq(s, k + 1, Len(s))

RECURSIVE sort_by_score_desc(_)
sort_by_score_desc(s) ==
    IF s = <<>> THEN <<>>
    ELSE InsertByScore(sort_by_score_desc(SubSeq(s, 1, Len(s) - 1)), s[Len(s)])

IsT1(child) == child.kind = "t1"

BODY_LIMIT == 500

ELLIPSIS == <<".", ".", ".">>

\* a cleaning step that lets every body through as it is
truncate_body_never(body) == body

\* body[:500] + "..." if len(body) > 500 else body
truncate_body(body) ==
    IF Len(body) > BODY_LIMIT THEN SubSeq(body, 1, BODY_LIMIT) \o ELLIPSIS ELSE body

\* the first position from `from` on that holds ch, 0 when there is none
FirstAt(s, from, ch) ==
    IF \E j \in from..Len(s) : s[j] = ch
    THEN CHOOSE j \in from..Len(s) : s[j] = ch /\ \A k \in from..(j - 1) : s[k] # ch
    ELSE 0

\* \[([^\]]+)\]\([^\)]+\) matched at the "[" of position i: the positions of
\* its "]" and of its closing ")", or no match.  The group runs to the first
\* "]", which "(" must follow; the URL runs to the first ")"; neither is empty.
LinkAt(s, i) ==
    LET rb == FirstAt(s, i + 1, "]")
        rp == IF rb = 0 THEN 0 ELSE FirstAt(s, rb + 2, ")")
    IN  IF rb > i + 1 /\ rb + 1 <= Len(s) /\ s[rb + 1] = "(" /\ rp > rb + 2
        THEN [found |-> TRUE, rb |-> rb, rp |-> rp]
        ELSE [found |-> FALSE, rb |-> 0, rp |-> 0]

\* re.sub(pattern, r"\1", body) from position i on: every match, leftmost
\* first and without overlap, is replaced by its display text
RECURSIVE strip_links(_, _)
strip_links(s, i) ==
    LET lb == FirstAt(s, i, "[")
    IN  IF i > Len(s) \/ lb = 0 THEN SubSeq(s, i, Len(s))
        ELSE IF LinkAt(s, lb).found
        THEN SubSeq(s, i, lb - 1) \o SubSeq(s, lb + 1, LinkAt(s, lb).rb - 1)
                \o strip_links(s, LinkAt(s, lb).rp + 1)
        ELSE SubSeq(s, i, lb) \o strip_links(s, lb + 1)

\* the body of a comment record: truncated, then its markdown links rewritten
clean_body(body) == strip_links(truncate_body(body), 1)

\* the top MAX_COMMENTS_PER_POST comments (kind t1) of a listing, by score
top_comments(children) ==
    LET raw == SelectSeq(children, IsT1)
        sorted == sort_by_score_desc([i \in 1..Len(raw) |->
                      [score |-> raw[i].score, body |-> clean_body(raw[i].body)]])
    IN  SubSeq(sorted, 1, IF Len(sorted) < MAX_COMMENTS_PER_POST
                           THEN Len(sorted) ELSE MAX_COMMENTS_PER_POST)

\* What the loop body does to one post.  "failed": a non-200 response or an
\* exception in the request; "not_a_thread": a 200 response whose JSON is no
\* list of two listings, which leaves the post untouched; "ok": the listing.
extract_one(post, outcome, children) ==
    CASE outcome = "failed" ->
            [post EXCEPT !.has_comments = TRUE, !.comments = <<>>,
                         !.comments_degraded = TRUE]
      [] outcome = "not_a_thread" -> post
      [] outcome = "ok" ->
            [post EXCEPT !.has_comments = TRUE, !.comments = top_comments(children)]

\* the except branch of the orchestrator: every post loses its comments
mark_all_degraded(ps) ==
    [i \in 1..Len(ps) |->
        [ps[i] EXCEPT !.has_comments = TRUE, !.comments = <<>>,
                      !.comments_degraded = TRUE]]

\* sum(1 for p in posts if p.get("comments") and len(p["comments"]) > 0)
comments_success_count(ps) ==
    Cardinality({i \in 1..Len(ps) : ps[i].has_comments /\ Len(ps[i].comments) > 0})

----------------------------------------------------------------------------
(* pipeline/render_html.py: feature derivation.                             *)
(* A comment is [score, body], the body a sequence of characters; the       *)
(* author and the author flair, which only the creator flag reads, are      *)
(* left out.                                                                *)

POSITIVE_WORDS ==
    { <<"a", "m", "a", "z", "i", "n", "g">>,
      <<"m", "a", "s", "t", "e", "r", "p", "i", "e", "c", "e">>,
      <<"b", "r", "i", "l", "l", "i", "a", "n", "t">>,
      <<"f", "a", "n", "t", "a", "s", "t", "i", "c">>,
      <<"i", "n", "c", "r", "e", "d", "i", "b", "l", "e">>,
      <<"l", "o", "v", "e">>,
      <<"l", "o", "v", "e", "d">>,
      <<"p", "e", "r", "f", "e", "c", "t">>,
      <<"e", "x", "c", "e", "l", "l", "e", "n", "t">>,
      <<"o", "u", "t", "s", "t", "a", "n", "d", "i", "n", "g">>,
      <<"p", "h", "e", "n", "o", "m", "e", "n", "a", "l">>,
      <<"s", "u", "p", "e", "r", "b">>,
      <<"b", "e", "a", "u", "t", "i", "f", "u", "l">>,
      <<"g", "o", "r", "g", "e", "o", "u", "s">>,
      <<"s", "t", "u", "n", "n", "i", "n", "g">>,
      <<"b", "e", "s", "t">>,
      <<"f", "a", "v", "o", "r", "i", "t", "e">>,
      <<"f", "a", "v", "o", "u", "r", "i", "t", "e">>,
      <<"g", "r", "e", "a", "t">>,
      <<"w", "o", "n", "d", "e", "r", "f", "u", "l">>,
      <<"a", "w", "e", "s", "o", "m", "e">>,
      <<"e", "n", "j", "o", "y">>,
      <<"e", "n", "j", "o", "y", "e", "d">>,
      <<"i", "m", "p", "r", "e", "s", "s", "i", "v", "e">> }

NEGATIVE_WORDS ==
    { <<"t", "e", "r", "r", "i", "b", "l", "e">>,
      <<"a", "w", "f", "u", "l">>,
      <<"h", "o", "r", "r", "i", "b", "l", "e">>,
      <<"d", "i", "s", "a", "p", "p", "o", "i", "n", "t", "i", "n", "g">>,
      <<"b", "o", "r", "i", "n", "g">>,
      <<"w", "o", "r", "s", "t">>,
      <<"h", "a", "t", "e">>,
      <<"h", "a", "t", "e", "d">>,
      <<"t", "r", "a", "s", "h">>,
      <<"g", "a", "r", "b", "a", "g", "e">>,
      <<"m", "e", "d", "i", "o", "c", "r", "e">>,
      <<"b", "a", "d">>,
      <<"p", "o", "o", "r">>,
      <<"p", "a", "i", "n", "f", "u", "l">>,
      <<"u", "n", "w", "a", "t", "c", "h", "a", "b", "l", "e">>,
      <<"c", "r", "i", "n", "g", "e">>,
      <<"a", "n", "n", "o", "y", "i", "n", "g">>,
      <<"o", "v", "e", "r", "r", "a", "t", "e", "d">>,
      <<"w", "e", "a", "k">>,
      <<"b", "l", "a", "n", "d">>,
      <<"d", "u", "l", "l">>,
      <<"f", "o", "r", "g", "e", "t", "t", "a", "b", "l", "e">>,
      <<"d", "i", "s", "a", "s", "t", "e", "r">>,
      <<"r", "u", "i", "n", "e", "d">> }

MIXED_WORDS ==
    { <<"b", "u", "t">>,
      <<"h", "o", "w", "e", "v", "e", "r">>,
      <<"a", "l", "t", "h", "o", "u", "g", "h">>,
      <<"c", "o", "n", "f", "l", "i", "c", "t", "e", "d">>,
      <<"m", "i", "x", "e", "d">>,
      <<"u", "n", "e", "v", "e", "n">>,
      <<"i", "n", "c", "o", "n", "s", "i", "s", "t", "e", "n", "t">>,
      <<"d", "i", "v", "i", "s", "i", "v", "e">>,
      <<"c", "o", "n", "t", "r", "o", "v", "e", "r", "s", "i", "a", "l">>,
      <<"o", "v", "e", "r", "r", "a", "t", "e", "d">> }

agree_words ==
    { <<"a", "g", "r", "e", "e">>,
      <<"e", "x", "a", "c", "t", "l", "y">>,
      <<"t", "h", "i", "s">>,
      <<"y", "e", "s">>,
      <<"r", "i", "g", "h", "t">>,
      <<"s", "a", "m", "e">>,
      <<"t", "r", "u", "e">>,
      <<"a", "b", "s", "o", "l", "u", "t", "e", "l", "y">>,
      <<"d", "e", "f", "i", "n", "i", "t", "e", "l", "y">> }

disagree_words ==
    { <<"d", "i", "s", "a", "g", "r", "e", "e">>,
      <<"w", "r", "o", "n", "g">>,
      <<"n", "o">>,
      <<"n", "a", "h">>,
      <<"n", "o", "p", "e">>,
      <<"b", "u", "t">>,
      <<"h", "o", "w", "e", "v", "e", "r">>,
      <<"a", "c", "t", "u", "a", "l", "l", "y">> }

LowerLetters == { UpperToLower[k] : k \in DOMAIN UpperToLower }

\* the end of the run of letters that starts at position i
WordEnd(s, i) ==
    CHOOSE j \in i..Len(s) :
        /\ \A k \in i..j : s[k] \in LowerLetters
        /\ (j = Len(s) \/ s[j + 1] \notin LowerLetters)

\* set(re.findall(r"[a-z]+", body.lower()))
body_words(body) ==
    LET s == lower(body)
        starts == { i \in 1..Len(s) :
                      s[i] \in LowerLetters /\ (i = 1 \/ s[i - 1] \notin LowerLetters) }
    IN  { SubSeq(s, i, WordEnd(s, i)) : i \in starts }

\* the sum over the comments of len(words & keywords)
RECURSIVE keyword_hits(_, _)
keyword_hits(comments, keywords) ==
    IF comments = <<>> THEN 0
    ELSE Cardinality(body_words(Head(comments).body) \cap keywords)
            + keyword_hits(Tail(comments), keywords)

Abs(n) == IF n < 0 THEN -n ELSE n

\* a chain that tests for close counts first
sentiment_of_counts_close_first(pos, neg, mix) ==
    IF Abs(pos - neg) <= 2 THEN "Mixed reactions"
    ELSE IF pos > neg * 2 /\ pos > mix THEN "Positive vibes"
    ELSE IF neg > pos * 2 /\ neg > mix THEN "Critical reception"
    ELSE IF mix >= pos /\ mix >= neg THEN "Mixed reactions"
    ELSE IF pos > neg THEN "Positive vibes"
    ELSE "Critical reception"

\* the chain of tests of _compute_sentiment on a non-zero total
sentiment_of_counts(pos, neg, mix) ==
    IF pos > neg * 2 /\ pos > mix THEN "Positive vibes"
    ELSE IF neg > pos * 2 /\ neg > mix THEN "Critical reception"
    ELSE IF mix >= pos /\ mix >= neg THEN "Mixed reactions"
    ELSE IF Abs(pos - neg) <= 2 THEN "Mixed reactions"
    ELSE IF pos > neg THEN "Positive vibes"
    ELSE "Critical reception"

_compute_sentiment(comments) ==
    IF comments = <<>> THEN "Neutral discussion"
    ELSE LET pos == keyword_hits(comments, POSITIVE_WORDS)
             neg == keyword_hits(comments, NEGATIVE_WORDS)
             mix == keyword_hits(comments, MIXED_WORDS)
         IN  IF pos + neg + mix = 0 THEN "Neutral discussion"
             ELSE sentiment_of_counts(pos, neg, mix)

\* a percentage that is cut, not rounded
percent_floor(part, total) == (100 * part) \div total

\* round(part / total * 100): the nearest integer, the even one of the two
\* when the quotient lies halfway.  (On the counts of at most three comments
\* the double is exact at the halfway cases and off by less than 1e-13 elsewhere.)
percent_rounded(part, total) ==
    LET q == (100 * part) \div total
        r == (100 * part) % total
    IN  IF 2 * r < total THEN q
        ELSE IF 2 * r > total THEN q + 1
        ELSE IF q % 2 = 0 THEN q ELSE q + 1

\* _compute_consensus returned None
NO_CONSENSUS == [present |-> FALSE, label |-> "", pct |-> 0]

Max(a, b) == IF a >= b THEN a ELSE b

\* the label and the percentage the label reports
_compute_consensus(comments) ==
    IF Len(comments) < 2 THEN NO_CONSENSUS
    ELSE LET agree == keyword_hits(comments, agree_words)
             disagree == keyword_hits(comments, disagree_words)
             total == agree + disagree
         IN  IF total < 3 THEN NO_CONSENSUS
             ELSE LET pct == percent_rounded(agree, total)
                  IN  IF pct >= 70
                      THEN [present |-> TRUE, label |-> "Strong Consensus", pct |-> pct]
                      ELSE IF pct <= 30
                      THEN [present |-> TRUE, label |-> "Divided Community", pct |-> 100 - pct]
                      ELSE [present |-> TRUE, label |-> "Divided Community",
                            pct |-> Max(pct, 100 - pct)]

\* a max that returns the last of the comments with the highest score
catalyst_index_last(comments) ==
    CHOOSE i \in 1..Len(comments) :
        /\ \A j \in 1..Len(comments) : comments[j].score <= comments[i].score
        /\ \A j \in (i + 1)..Len(comments) : comments[j].score < comments[i].score

\* max(comments, key=score) returns the first of the comments with the
\* highest score
catalyst_index(comments) ==
    CHOOSE i \in 1..Len(comments) :
        /\ \A j \in 1..Len(comments) : comments[j].score <= comments[i].score
        /\ \A j \in 1..(i - 1) : comments[j].score < comments[i].score

\* top["is_catalyst"] = True; a comment without the key reads as FALSE
flag_catalyst(comments) ==
    IF comments = <<>> THEN <<>>
    ELSE [i \in 1..Len(comments) |->
            [score |-> comments[i].score, body |-> comments[i].body,
             is_catalyst |-> (i = catalyst_index(comments))]]

\* the loop body of _enrich_posts_for_template: the fields the claims are
\* about (sentiment, consensus, the catalyst flag)
derive_features(post) ==
    [ id |-> post.id, title |-> post.title, score |-> post.score,
      num_comments |-> post.num_comments, flair |-> post.flair,
      has_comments |-> post.has_comments,
      comments_degraded |-> post.comments_degraded,
      comments |-> flag_catalyst(post.comments),
      sentiment |-> _compute_sentiment(post.comments),
      consensus |-> _compute_consensus(post.comments) ]

_enrich_posts_for_template(ps) == [i \in 1..Len(ps) |-> derive_features(ps[i])]

----------------------------------------------------------------------------
(* pipeline/render_html.py: the digest directory.                           *)
(* digest = [latest, ids, error_txt]: what the latest.html slot holds       *)
(* ("none", "digest", "fallback"), the post ids of the digest in it, and    *)
(* whether error.txt was written.                                           *)

PostIds(ps) == [i \in 1..Len(ps) |-> ps[i].id]

\* render() returned: the digest of the posts is in the latest slot
render(d, ps) == [d EXCEPT !.latest = "digest", !.ids = PostIds(ps)]

\* render_fallback_digest never raises.  "ok": the fallback page is written
\* to the latest slot; "failed_error_txt": writing the page raised and
\* error.txt was written instead; "failed_silent": that raised as well.
\* A failed write leaves the latest slot as it was.
FallbackOutcomes == {"ok", "failed_error_txt", "failed_silent"}

render_fallback_digest(d, outcome) ==
    CASE outcome = "ok" -> [d EXCEPT !.latest = "fallback", !.ids = <<>>]
      [] outcome = "failed_error_txt" -> [d EXCEPT !.error_txt = TRUE]
      [] outcome = "failed_silent" -> d

----------------------------------------------------------------------------
(* pipeline/update_memory.py: the memory file CLAUDE.md.                    *)
(* The file is [exists, lines]; a line is [t, k, n, m, s] with t its kind:  *)
(* "title" (# ...), "section" (another ## heading), "last_run_hdr"          *)
(* (## Last Run), "history_hdr" (## Run History), "item" (a "- " line),     *)
(* "text", "blank".  k names the line, n and m are its numbers, s its text. *)

HISTORY_LIMIT == 30

Line(t, k, n, m, st) == [t |-> t, k |-> k, n |-> n, m |-> m, s |-> st]

LBlank == Line("blank", "", 0, 0, "")

LLastRunHdr == Line("last_run_hdr", "## Last Run", 0, 0, "")

LHistoryHdr == Line("history_hdr", "## Run History", 0, 0, "")

LNoRuns == Line("text", "No runs yet.", 0, 0, "")

\* line.strip().startswith("- ")
StartsDash(l) == l.t = "item"

\* line.startswith("##")
StartsHashes(l) == l.t \in {"section", "last_run_hdr", "history_hdr"}

\* the content _create_initial_claude writes, line by line
INITIAL_CLAUDE ==
    << Line("title", "# The TV Signal", 0, 0, ""),
       LBlank,
       Line("section", "## Project", 0, 0, ""),
       Line("text", "Agentic RSS digest system for /r/television.", 0, 0, ""),
       LBlank,
       Line("section", "## Configuration", 0, 0, ""),
       Line("item", "Subreddit", 0, 0, "television"),
       Line("item", "Min comments", 50, 0, ""),
       Line("item", "Max seen IDs", 200, 0, ""),
       Line("item", "Schedule", 0, 0, "Daily 11 PM EST"),
       LBlank,
       LLastRunHdr,
       LNoRuns,
       LBlank,
       LHistoryHdr,
       LNoRuns >>

\* index of the last line of the given type, 0 when there is none (the loop
\* overwrites last_run_start at every line.startswith("## Last Run") and
\* history_start at every line.startswith("## Run History"))
LastIndex(lines, t) ==
    IF \E i \in 1..Len(lines) : lines[i].t = t
    THEN CHOOSE i \in 1..Len(lines) :
            lines[i].t = t /\ \A j \in (i + 1)..Len(lines) : lines[j].t # t
    ELSE 0

\* the "## Last Run" block of a run; the last element ends in a blank line
LastRunBlock(m, stamp) ==
    << LLastRunHdr,
       Line("item", "Date", stamp, 0, ""),
       Line("item", "Posts fetched", m.posts_fetched, 0, ""),
       Line("item", "Posts after dedup", m.posts_after_dedup, 0, ""),
       Line("item", "Posts after filter", m.posts_after_filter, 0, ""),
       Line("item", "Posts in digest", m.posts_in_digest, 0, ""),
       Line("item", "Comments fetched", m.comments_success, m.comments_total, ""),
       Line("item", "Degraded mode", 0, 0, IF m.degraded THEN "yes" ELSE "no"),
       Line("item", "Status", 0, 0, m.status),
       LBlank >>

\* the history line of a run: "- <date> | <n> posts | <runtime>s | <status>"
HistoryEntry(m, stamp) == Line("item", "entry", m.posts_in_digest, stamp, m.status)

\* the "- " lines after the history heading, up to the next "##" heading
RECURSIVE HistoryScan(_, _)
HistoryScan(lines, i) ==
    IF i > Len(lines) THEN <<>>
    ELSE IF StartsDash(lines[i]) THEN <<lines[i]>> \o HistoryScan(lines, i + 1)
    ELSE IF StartsHashes(lines[i]) THEN <<>>
    ELSE HistoryScan(lines, i + 1)

history_entries(lines) ==
    LET history_start == LastIndex(lines, "history_hdr")
    IN  IF history_start = 0 THEN <<>> ELSE HistoryScan(lines, history_start + 1)

\* a cut that keeps one entry too many
keep_newest_off_by_one(entries) ==
    SubSeq(entries, 1, IF Len(entries) < HISTORY_LIMIT + 1 THEN Len(entries) ELSE HISTORY_LIMIT + 1)

\* history_entries[:30]
keep_newest(entries) ==
    SubSeq(entries, 1, IF Len(entries) < HISTORY_LIMIT THEN Len(entries) ELSE HISTORY_LIMIT)

\* the lines update_memory writes, given the lines it read
rewritten_lines(lines, m, stamp) ==
    LET last_run_start == LastIndex(lines, "last_run_hdr")
        head == IF last_run_start # 0
                THEN SubSeq(lines, 1, last_run_start - 1)
                ELSE SubSeq(INITIAL_CLAUDE, 1, 12)
    IN  head \o LastRunBlock(m, stamp) \o <<LHistoryHdr>>
             \o keep_newest(<<HistoryEntry(m, stamp)>> \o history_entries(lines))

\* Parts B and C of update_memory, inside one try that logs and swallows.
\* "ok": the file is rewritten.  "failed_before_write": something raised
\* before the final open (creating or reading the file) and the file is as
\* it was.  "failed_after_create": the file was missing, was created, and
\* a later step raised.  "write_failed": the final write raised after open
\* truncated the file.
HistoryOutcomes == {"ok", "failed_before_write", "failed_after_create", "write_failed"}

update_claude(file, m, stamp, outcome) ==
    LET lines == IF file.exists THEN file.lines ELSE INITIAL_CLAUDE
    IN  CASE outcome = "ok" ->
                [exists |-> TRUE, lines |-> rewritten_lines(lines, m, stamp)]
          [] outcome = "failed_before_write" -> file
          [] outcome = "failed_after_create" -> [exists |-> TRUE, lines |-> lines]
          [] outcome = "write_failed" -> [exists |-> TRUE, lines |-> <<>>]

\* a save that writes back what it loaded
update_seen_keeps_old(file, ps, outcome, cut) ==
    save_seen_ids(file, load_seen_ids(file), outcome, cut)

\* update_memory part A: current_ids + [p["id"] for p in posts], saved
update_seen(file, ps, outcome, cut) ==
    save_seen_ids(file,
                  load_seen_ids(file) \o [i \in 1..Len(ps) |-> StrV(ps[i].id)],
                  outcome, cut)

\* update_memory catches every exception of its file operations, so the
\* except branch of the orchestrator's memory stage is never entered
update_memory_raises == FALSE

----------------------------------------------------------------------------
(* The parts of the state a specification does not use *)

RunIdle ==
    /\ pc = "off"
    /\ feed = <<>>
    /\ raw_xml = <<>>
    /\ posts = <<>>
    /\ metrics = [status |-> "none"]
    /\ log = [stage |-> "none"]
    /\ pre = <<>>
    /\ claude_file = [exists |-> FALSE, lines |-> <<>>]
    /\ digest = [latest |-> "none"]
    /\ saved = [status |-> "none"]
    /\ runs = 0

FltIdle ==
    /\ flt_in = <<>>
    /\ flt_out = <<>>
    /\ flt_log = <<>>
    /\ flt_pc = "off"

SvIdle ==
    /\ sv_in = <<>>
    /\ sv_loaded = <<>>
    /\ sv_pc = "off"

----------------------------------------------------------------------------
(* run_digest.py: the orchestrator *)

\* the metrics record run_pipeline starts from (date and runtime, which are
\* wall-clock readings, are left out)
INITIAL_METRICS ==
    [ posts_fetched |-> 0, posts_after_dedup |-> 0, posts_after_filter |-> 0,
      posts_in_digest |-> 0, comments_success |-> 0, comments_total |-> 0,
      degraded |-> FALSE, status |-> "failed" ]

\* the outcome of each stage of the run, as its log lines tell it
INITIAL_LOG ==
    [ fetch |-> "pending", parse |-> "pending", dedup |-> "pending",
      filter |-> "pending", comments |-> "pending", render |-> "pending",
      fallback |-> "pending", seen_save |-> "pending", history |-> "pending" ]

\* no run before this one has reached persist-memory
NO_EARLIER_RUN == [seen_save |-> "pending", ids |-> <<>>]

\* the snapshots at the start of a run
StartSnapshot(seen, claude) ==
    [ seen_file |-> seen, claude_file |-> claude,
      dedup |-> <<>>, filter |-> <<>>, comments |-> <<>>,
      earlier |-> NO_EARLIER_RUN ]

\* what the run before left: the outcome of its seen-ID save and the ids of
\* the list it handed to update_memory ("pending" when it did not get there)
EarlierRun == [seen_save |-> log.seen_save, ids |-> PostIds(posts)]

NO_ARTIFACT == [written |-> FALSE, metrics |-> INITIAL_METRICS]

\* the feed entries the model serves
E_A == [id_attr |-> "t3_a", link_id |-> "a", title |-> T_EPISODE]

E_B == [id_attr |-> "", link_id |-> "b", title |-> T_PLAIN]

E_NOID == [id_attr |-> "", link_id |-> "", title |-> T_PLAIN]

FeedEntries == {E_A, E_B, E_NOID}

\* feeds of up to MaxFeed distinct entries
Feeds ==
    UNION { { f \in [1..n -> FeedEntries] : \A i, j \in 1..n : i # j => f[i] # f[j] } :
            n \in 0..MaxFeed }

\* what the post's JSON endpoint answers to enrich_posts: nothing usable
\* (non-200, an exception, no list), or score, num_comments and flair
EnrichAnswers ==
    { [ok |-> FALSE, score |-> 0, num_comments |-> 0, flair |-> F_NONE],
      [ok |-> TRUE, score |-> 10, num_comments |-> 25, flair |-> F_NONE],
      [ok |-> TRUE, score |-> 100, num_comments |-> 60, flair |-> F_DISCUSSION] }

\* enrich_posts: each post updated in place from its answer
enrich_posts(ps, answers) ==
    [i \in 1..Len(ps) |->
        IF answers[i].ok
        THEN Enriched(ps[i], answers[i].score, answers[i].num_comments, answers[i].flair)
        ELSE ps[i]]

\* what the comments endpoint answers to extract_comments for one post
CommentAnswers ==
    { [outcome |-> "failed", children |-> <<>>],
      [outcome |-> "not_a_thread", children |-> <<>>],
      [outcome |-> "ok", children |-> <<>>],
      [outcome |-> "ok",
       children |-> << [kind |-> "t1", score |-> 3, body |-> B_LOVED],
                       [kind |-> "more", score |-> 0, body |-> B_EMPTY],
                       [kind |-> "t1", score |-> 9, body |-> B_OVERRATED],
                       [kind |-> "t1", score |-> 9, body |-> B_AGREE],
                       [kind |-> "t1", score |-> 1, body |-> B_HATED] >>] }

\* extract_comments: the loop over the posts
extract_comments(ps, answers) ==
    [i \in 1..Len(ps) |-> extract_one(ps[i], answers[i].outcome, answers[i].children)]

\* the write of the posts_with_comments artifact after the loop
ArtifactOutcomes == {"written", "failed"}

\* a stage that gives up when the request of one post fails
extract_comments_raises_on_post_failure(answers, artifact) ==
    artifact = "failed" \/ \E i \in DOMAIN answers : answers[i].outcome = "failed"

\* the try of the loop body catches every exception, so extract_comments can
\* raise only where it writes its artifact
extract_comments_raises(answers, artifact) == artifact = "failed"

\* The seen-ID store a run can find: no file yet, the list an earlier run
\* saved, the stump an earlier failed write left, and files edited by hand
\* (a document that is no list, a list with a nested array in it).
SeenFiles ==
    { [exists |-> FALSE, text |-> <<>>],
      [exists |-> TRUE, text |-> json_dump(<<StrV("t3_a")>>)],
      [exists |-> TRUE, text |-> <<TokLB>>],
      [exists |-> TRUE, text |-> <<TokLBrace, TokRBrace>>],
      [exists |-> TRUE, text |-> <<TokLB, [t |-> "arr", v |-> ""], TokRB>>] }

\* the metrics of an earlier run, as its memory file entry shows them
EARLIER_METRICS ==
    [ posts_fetched |-> 2, posts_after_dedup |-> 2, posts_after_filter |-> 1,
      posts_in_digest |-> 1, comments_success |-> 1, comments_total |-> 1,
      degraded |-> FALSE, status |-> "success" ]

\* The memory file a run can find: no file yet, the file an earlier run
\* wrote, and the empty file an earlier failed write left.
ClaudeFiles ==
    { [exists |-> FALSE, lines |-> <<>>],
      [exists |-> TRUE, lines |-> rewritten_lines(INITIAL_CLAUDE, EARLIER_METRICS, 0)],
      [exists |-> TRUE, lines |-> <<>>] }

Init ==
    /\ pc = "idle"
    /\ runs = 0
    /\ feed = <<>>
    /\ raw_xml = <<>>
    /\ posts = <<>>
    /\ metrics = INITIAL_METRICS
    /\ log = INITIAL_LOG
    /\ seen_file \in SeenFiles
    /\ claude_file \in ClaudeFiles
    /\ pre = StartSnapshot(seen_file, claude_file)
    /\ digest = [latest |-> "none", ids |-> <<>>, error_txt |-> FALSE]
    /\ saved = NO_ARTIFACT
    /\ FltIdle
    /\ SvIdle

\* scheduler.run_job starts run_digest.py, one process per run: a fresh
\* metrics record and the feed of the day
StartRunAt(at, feeds) ==
    /\ pc \in at
    /\ runs' = runs + 1
    /\ feed' \in feeds
    /\ raw_xml' = <<>>
    /\ posts' = <<>>
    /\ metrics' = INITIAL_METRICS
    /\ log' = INITIAL_LOG
    /\ pre' = [StartSnapshot(seen_file, claude_file) EXCEPT !.earlier = EarlierRun]
    /\ saved' = NO_ARTIFACT
    /\ pc' = "fetch"
    /\ UNCHANGED << seen_file, claude_file, digest, flt_vars, sv_vars >>

StartRun == StartRunAt({"idle"}, Feeds)

\* a handler without its return falls through to task 3
AFTER_FATAL_falls_through == "dedup"

\* where run_pipeline goes after the handler of a fatal stage: it saves the
\* metrics and returns
AFTER_FATAL == "save_metrics"

\* task 1, fetch() returned
FetchOk ==
    /\ pc = "fetch"
    /\ raw_xml' = feed
    /\ log' = [log EXCEPT !.fetch = "ok"]
    /\ pc' = "parse"
    /\ UNCHANGED << feed, posts, metrics, pre, seen_file, claude_file, digest, saved,
                    runs, flt_vars, sv_vars >>

\* task 1, fetch() raised: fallback page, status failed, return
FetchRaised ==
    /\ pc = "fetch"
    /\ \E outcome \in FallbackOutcomes :
          /\ digest' = render_fallback_digest(digest, outcome)
          /\ log' = [log EXCEPT !.fetch = "raised", !.fallback = outcome]
    /\ metrics' = [metrics EXCEPT !.status = "failed"]
    /\ pc' = AFTER_FATAL
    /\ UNCHANGED << feed, raw_xml, posts, pre, seen_file, claude_file, saved,
                    runs, flt_vars, sv_vars >>

\* task 2, parse() returned
ParseOk ==
    /\ pc = "parse"
    /\ posts' = parse(raw_xml)
    /\ metrics' = [metrics EXCEPT !.posts_fetched = Len(parse(raw_xml))]
    /\ log' = [log EXCEPT !.parse = "ok"]
    /\ pc' = "dedup"
    /\ UNCHANGED << feed, raw_xml, pre, seen_file, claude_file, digest, saved,
                    runs, flt_vars, sv_vars >>

\* task 2, parse() raised: fallback page, return with the metrics as they are
ParseRaised ==
    /\ pc = "parse"
    /\ \E outcome \in FallbackOutcomes :
          /\ digest' = render_fallback_digest(digest, outcome)
          /\ log' = [log EXCEPT !.parse = "raised", !.fallback = outcome]
    /\ pc' = AFTER_FATAL
    /\ UNCHANGED << feed, raw_xml, posts, metrics, pre, seen_file, claude_file, saved,
                    runs, flt_vars, sv_vars >>

\* task 3: deduplicate() returns the unseen posts, or raises on a store it
\* cannot turn into a set; then the list stays as it was
Dedup ==
    /\ pc = "dedup"
    /\ pre' = [pre EXCEPT !.dedup = posts]
    /\ LET raised == SeenSetRaises(seen_file)
           after == IF raised THEN posts ELSE deduplicate(seen_file, posts)
       IN  /\ posts' = after
           /\ metrics' = [metrics EXCEPT !.posts_after_dedup = Len(after)]
           /\ log' = [log EXCEPT !.dedup = IF raised THEN "raised" ELSE "ok"]
    /\ seen_file' = deduplicate_store(seen_file, posts)
    /\ pc' = "filter"
    /\ UNCHANGED << feed, raw_xml, claude_file, digest, saved, runs, flt_vars, sv_vars >>

\* the list a failed enrich_and_filter leaves in the orchestrator's hands
filter_raised_keeps_filtered(enriched, filtered) == filtered

\* enrich_posts updates the post records in place, so the list the
\* orchestrator still holds after a raise carries the enrichment
filter_raised_posts(enriched, filtered) == enriched

\* task 4: enrich_and_filter() returns the filtered list, or raises (writing
\* the enriched_posts or filtered_posts artifact) after the enrichment loop
FilterStage(Answers) ==
    /\ pc = "filter"
    /\ pre' = [pre EXCEPT !.filter = posts]
    /\ \E answers \in [1..Len(posts) -> Answers], raised \in BOOLEAN :
          LET enriched == enrich_posts(posts, answers)
              filtered == filter_posts(enriched)
              after == IF raised THEN filter_raised_posts(enriched, filtered) ELSE filtered
          IN  /\ posts' = after
              /\ metrics' = [metrics EXCEPT !.posts_after_filter = Len(after)]
              /\ log' = [log EXCEPT !.filter = IF raised THEN "raised" ELSE "ok"]
    /\ pc' = "comments"
    /\ UNCHANGED << feed, raw_xml, seen_file, claude_file, digest, saved, runs,
                    flt_vars, sv_vars >>

Filter == FilterStage(EnrichAnswers)

\* a count of the comments, not of the posts that have some
comments_counted_per_comment(m, ps) ==
    [m EXCEPT !.comments_total = Len(ps),
              !.comments_success = Len(ps) + comments_success_count(ps),
              !.degraded = (comments_success_count(ps) = 0 /\ Len(ps) > 0)]

\* the metrics after extract_comments() returned
comments_counted(m, ps) ==
    [m EXCEPT !.comments_total = Len(ps),
              !.comments_success = comments_success_count(ps),
              !.degraded = (comments_success_count(ps) = 0 /\ Len(ps) > 0)]

\* an except branch that forgets the flag
comments_raised_not_flagged(m) == m

\* the metrics after extract_comments() raised
comments_raised_metrics(m) == [m EXCEPT !.degraded = TRUE]

\* task 5: extract_comments() returns the posts with their comments, or
\* raises (writing the posts_with_comments artifact) after the loop
CommentsStage(Answers) ==
    /\ pc = "comments"
    /\ pre' = [pre EXCEPT !.comments = posts]
    /\ \E answers \in [1..Len(posts) -> Answers], artifact \in ArtifactOutcomes :
          LET extracted == extract_comments(posts, answers)
              raised == extract_comments_raises(answers, artifact)
          IN  IF raised
              THEN /\ posts' = mark_all_degraded(extracted)
                   /\ metrics' = comments_raised_metrics(metrics)
                   /\ log' = [log EXCEPT !.comments = "raised"]
              ELSE /\ posts' = extracted
                   /\ metrics' = comments_counted(metrics, extracted)
                   /\ log' = [log EXCEPT !.comments = "ok"]
    /\ pc' = "render"
    /\ UNCHANGED << feed, raw_xml, seen_file, claude_file, digest, saved, runs,
                    flt_vars, sv_vars >>

Comments == CommentsStage(CommentAnswers)

\* task 6, render() returned; it has added the derived features to the posts
\* in place
RenderOk ==
    /\ pc = "render"
    /\ digest' = render(digest, posts)
    /\ posts' = _enrich_posts_for_template(posts)
    /\ metrics' = [metrics EXCEPT !.posts_in_digest = Len(posts)]
    /\ log' = [log EXCEPT !.render = "ok"]
    /\ pc' = "memory"
    /\ UNCHANGED << feed, raw_xml, pre, seen_file, claude_file, saved, runs,
                    flt_vars, sv_vars >>

\* task 6, render() raised, before it derived the features (no template) or
\* after (writing the files): fallback page, status failed, and on to task 7
RenderRaised ==
    /\ pc = "render"
    /\ \E outcome \in FallbackOutcomes :
          /\ digest' = render_fallback_digest(digest, outcome)
          /\ log' = [log EXCEPT !.render = "raised", !.fallback = outcome]
    /\ \E derived \in BOOLEAN :
          posts' = IF derived THEN _enrich_posts_for_template(posts) ELSE posts
    /\ metrics' = [metrics EXCEPT !.status = "failed"]
    /\ pc' = "memory"
    /\ UNCHANGED << feed, raw_xml, pre, seen_file, claude_file, saved, runs,
                    flt_vars, sv_vars >>

\* the status task 7 assigns before it calls update_memory
memory_status(m) == IF ~m.degraded THEN "success" ELSE "partial"

\* task 7: the status is assigned, then update_memory saves the seen IDs and
\* rewrites the memory file; both swallow their failures
MemoryStage(SeenOutcomes, FileOutcomes) ==
    /\ pc = "memory"
    /\ \E seen_outcome \in SeenOutcomes, cut \in {0, 1}, history_outcome \in FileOutcomes :
          /\ (seen_outcome # "write_failed") => cut = 0
          /\ (history_outcome = "failed_after_create") => ~claude_file.exists
          /\ LET m == [metrics EXCEPT !.status = memory_status(metrics)]
             IN  /\ seen_file' = update_seen(seen_file, posts, seen_outcome, cut)
                 /\ claude_file' = update_claude(claude_file, m, runs, history_outcome)
                 /\ metrics' = IF update_memory_raises
                               THEN [m EXCEPT !.status = "partial"]
                               ELSE m
                 /\ log' = [log EXCEPT !.seen_save = seen_outcome,
                                       !.history = history_outcome]
    /\ pc' = "save_metrics"
    /\ UNCHANGED << feed, raw_xml, posts, pre, digest, saved, runs, flt_vars, sv_vars >>

Memory == MemoryStage(SaveOutcomes, HistoryOutcomes)

\* _save_metrics: the metrics artifact is written and run_pipeline returns
SaveMetrics ==
    /\ pc = "save_metrics"
    /\ saved' = [written |-> TRUE, metrics |-> metrics]
    /\ pc' = "done"
    /\ UNCHANGED << feed, raw_xml, posts, metrics, log, pre, seen_file, claude_file,
                    digest, runs, flt_vars, sv_vars >>

\* _save_metrics raised: nothing catches it and the process ends
SaveMetricsRaised ==
    /\ pc = "save_metrics"
    /\ pc' = "crashed"
    /\ UNCHANGED << feed, raw_xml, posts, metrics, log, pre, seen_file, claude_file,
                    digest, saved, runs, flt_vars, sv_vars >>

Next ==
    \/ StartRun
    \/ FetchOk
    \/ FetchRaised
    \/ ParseOk
    \/ ParseRaised
    \/ Dedup
    \/ Filter
    \/ Comments
    \/ RenderOk
    \/ RenderRaised
    \/ Memory
    \/ SaveMetrics
    \/ SaveMetricsRaised

Spec == Init /\ [][Next]_vars

\* the run is over: run_pipeline returned or the process ended
RunEnded == pc \in {"done", "crashed"}

----------------------------------------------------------------------------
(* Claims about the orchestrator, checked under Spec *)

\* the run has left the fetch / parse handlers through the fatal exit
FatalFailure == log.fetch = "raised" \/ log.parse = "raised"

LaterStagesPending ==
    /\ log.dedup = "pending" /\ log.filter = "pending" /\ log.comments = "pending"
    /\ log.render = "pending" /\ log.seen_save = "pending" /\ log.history = "pending"

MemoryFailed == log.seen_save \in {"open_failed", "write_failed"}
                    \/ log.history \in {"failed_before_write", "failed_after_create",
                                        "write_failed"}

MemoryClean == log.seen_save = "ok" /\ log.history = "ok"

\* C1: whenever the render stage raises, the final status of the run is
\* "failed", whatever happened in comment extraction and in memory persistence.
C1_RenderFailureEndsFailed ==
    (RunEnded /\ log.render = "raised") => metrics.status = "failed"

C3_CommentsFailureDegrades ==
    (log.comments = "raised" /\ Len(pre.comments) > 0) =>
        /\ metrics.degraded
        /\ Len(posts) = Len(pre.comments)
        /\ \A i \in 1..Len(posts) :
              /\ posts[i].id = pre.comments[i].id
              /\ posts[i].has_comments /\ posts[i].comments = <<>>
              /\ posts[i].comments_degraded
        /\ RunEnded => log.render # "pending"
        /\ log.render = "ok" =>
              /\ digest.latest = "digest"
              /\ digest.ids = PostIds(pre.comments)
              /\ metrics.posts_in_digest = Len(pre.comments)
        /\ (RunEnded /\ log.render = "ok" /\ MemoryClean) => metrics.status = "partial"

\* a finished run in which comment extraction raised on two posts and
\* render and persistence succeeded
C3_Witness ==
    /\ pc = "done"
    /\ log.comments = "raised"
    /\ Len(pre.comments) = 2
    /\ log.render = "ok"
    /\ MemoryClean
    /\ metrics.status = "partial"
    /\ Len(digest.ids) = 2

\* C4: when the persist-memory stage fails (the seen-ID write, or reading or
\* rewriting the history file), the final status is "partial", never
\* "success".
C4_MemoryFailureEndsPartial ==
    (RunEnded /\ MemoryFailed) => metrics.status = "partial"

\* C5: at the end of a run degraded is true only if comment extraction was
\* reached, the list entering it was non-empty and no post ended up with a
\* comment.
C5_DegradedOnlyOnNonEmptyList ==
    (RunEnded /\ metrics.degraded) =>
        /\ log.comments # "pending"
        /\ Len(pre.comments) > 0
        /\ comments_success_count(posts) = 0

\* C6 as stated: after dedup or enrich&filter raised, the list is exactly
\* the list the stage started with, field values included, and the count
\* metric is its size.
C6_FailedStageLeavesListUnchanged ==
    /\ (pc = "filter" /\ log.dedup = "raised") =>
          (posts = pre.dedup /\ metrics.posts_after_dedup = Len(pre.dedup))
    /\ (pc = "comments" /\ log.filter = "raised") =>
          (posts = pre.filter /\ metrics.posts_after_filter = Len(pre.filter))

\* the post with its score, num_comments and flair set to those of q
WithEnrichmentOf(post, q) ==
    [post EXCEPT !.score = q.score, !.num_comments = q.num_comments, !.flair = q.flair]

\* C6 amended: after dedup or enrich&filter raised, the list holds the same
\* posts in the same order and the count metric is its size; after a dedup
\* failure the posts are exactly as before, after an enrich&filter failure
\* they are as before in every field but score, num_comments and flair, which
\* may hold what enrich_posts fetched.
C6_FailedStageKeepsPostsAndOrder ==
    /\ (pc = "filter" /\ log.dedup = "raised") =>
          (posts = pre.dedup /\ metrics.posts_after_dedup = Len(pre.dedup))
    /\ (pc = "comments" /\ log.filter = "raised") =>
          /\ Len(posts) = Len(pre.filter)
          /\ metrics.posts_after_filter = Len(pre.filter)
          /\ \A i \in 1..Len(posts) :
                /\ posts[i].id = pre.filter[i].id
                /\ WithEnrichmentOf(posts[i], pre.filter[i]) = pre.filter[i]

\* enrich&filter raised (dedup had raised before it) on two posts, one of
\* which the filter would have dropped, and the list carries the enrichment
C6_Witness ==
    /\ pc = "comments"
    /\ log.dedup = "raised"
    /\ log.filter = "raised"
    /\ Len(posts) = 2
    /\ Len(filter_posts(posts)) = 1
    /\ posts # pre.filter

\* C8: the seen-ID store changes only in the persist-memory stage; dedup
\* and every other stage leave it as it is.
C8_StoreWrittenOnlyByMemoryStage ==
    [][seen_file' # seen_file => pc = "memory"]_vars

\* a run whose dedup stage dropped a post found in the store and whose
\* persist-memory stage then rewrote the store
C8_Witness ==
    /\ RunEnded
    /\ log.dedup = "ok"
    /\ metrics.posts_after_dedup < metrics.posts_fetched
    /\ log.seen_save = "ok"
    /\ seen_file # pre.seen_file

\* the values of the store file, as load_seen_ids reads them
StoreValues(file) == { load_seen_ids(file)[i] : i \in 1..Len(load_seen_ids(file)) }

\* C19: an id is added to the seen-ID store by a run only if the render stage
\* of that run succeeded and the post is in the digest it wrote; a run whose
\* render stage failed adds no id.
C19_IdsSavedOnlyAfterRender ==
    RunEnded =>
        \A v \in StoreValues(seen_file) \ StoreValues(pre.seen_file) :
            /\ log.render = "ok"
            /\ \E k \in 1..Len(digest.ids) : StrV(digest.ids[k]) = v

\* C20: at the end of every run, whatever stages failed, posts_in_digest <=
\* posts_after_filter <= posts_after_dedup <= posts_fetched,
\* comments_success <= comments_total <= posts_after_filter, and the status is
\* success, partial or failed; the metrics artifact, when written, holds the
\* same record.
C20_MetricsOrdered ==
    RunEnded =>
        /\ metrics.posts_in_digest <= metrics.posts_after_filter
        /\ metrics.posts_after_filter <= metrics.posts_after_dedup
        /\ metrics.posts_after_dedup <= metrics.posts_fetched
        /\ metrics.comments_success <= metrics.comments_total
        /\ metrics.comments_total <= metrics.posts_after_filter
        /\ metrics.status \in {"success", "partial", "failed"}
        /\ saved.written => saved.metrics = metrics

\* a finished run in which dedup raised, the filter dropped one of two posts,
\* the other got comments and render raised
C20_Witness ==
    /\ pc = "done"
    /\ log.dedup = "raised"
    /\ log.filter = "ok"
    /\ log.render = "raised"
    /\ metrics.posts_fetched = 2
    /\ metrics.posts_after_dedup = 2
    /\ metrics.posts_after_filter = 1
    /\ metrics.comments_total = 1
    /\ metrics.comments_success = 1
    /\ metrics.posts_in_digest = 0
    /\ saved.written

----------------------------------------------------------------------------
(* The filter specification: filter_posts applied to one input list *)

PosIds == << "p1", "p2", "p3", "p4", "p5", "p6" >>

FltTitles == { T_EPISODE, T_SEASON, T_PLAIN, T_NEARMISS, T_TRAILER }

FltFlairs == { F_NONE, F_DISCUSSION, F_EPISODE, F_NEWS, F_HUMOR }

FltComments == { 0, 1, 19, 20, 21, 49, 50, 51 }

FltScores == { -3, 0, 10, 500, 501 }

\* one post over the whole attribute range
FltSingles ==
    { << Enriched(NewPost(PosIds[1], t), sc, nc, f) >> :
        t \in FltTitles, f \in FltFlairs, nc \in FltComments, sc \in FltScores }

\* lists of up to MaxFilterLen posts, over the attributes that decide the order
FltListAttrs == { <<t, nc>> : t \in {T_EPISODE, T_PLAIN}, nc \in {0, 20, 50, 60} }

FltLists ==
    UNION { { [i \in 1..n |-> Enriched(NewPost(PosIds[i], a[i][1]), 0, a[i][2], F_NONE)] :
                a \in [1..n -> FltListAttrs] } : n \in 0..MaxFilterLen }

InitFilter ==
    /\ flt_in \in FltSingles \cup FltLists
    /\ flt_out = <<>>
    /\ flt_log = <<>>
    /\ flt_pc = "in"
    /\ RunIdle
    /\ SvIdle
    /\ seen_file = [exists |-> FALSE, text |-> <<>>]

FilterCall ==
    /\ flt_pc = "in"
    /\ flt_out' = filter_posts(flt_in)
    /\ flt_log' = [i \in 1..Len(flt_in) |-> drop_stage(flt_in[i])]
    /\ flt_pc' = "out"
    /\ UNCHANGED << flt_in, run_vars, sv_vars, seen_file >>

NextFilter == FilterCall

SpecFilter == InitFilter /\ [][NextFilter]_vars

----------------------------------------------------------------------------
(* Claims about filter_posts, checked under SpecFilter *)

\* position of a returned post in the input list (ids are unique in it)
FltInputPos(post) == CHOOSE k \in 1..Len(flt_in) : flt_in[k].id = post.id

\* C9: the list filter_posts returns is sorted by num_comments in descending
\* order, and two returned posts with equal num_comments are in the relative
\* order they had in the input list.
C9_SortedDescStable ==
    flt_pc = "out" =>
        /\ \A i \in 1..Len(flt_out) : \E k \in 1..Len(flt_in) : flt_in[k] = flt_out[i]
        /\ \A i, j \in 1..Len(flt_out) :
              i < j =>
                /\ flt_out[i].num_comments >= flt_out[j].num_comments
                /\ flt_out[i].num_comments = flt_out[j].num_comments
                      => FltInputPos(flt_out[i]) < FltInputPos(flt_out[j])

\* a returned list of three posts, two of them with equal counts, from an
\* input that was not in descending order
C9_Witness ==
    /\ flt_pc = "out"
    /\ Len(flt_out) = 3
    /\ flt_out[2].num_comments = flt_out[3].num_comments
    /\ flt_out[1].num_comments > flt_out[2].num_comments
    /\ flt_in[1].num_comments < flt_in[3].num_comments

\* C10: of the posts that reach the comment-count stage, exactly those with
\* 0 < num_comments < threshold are dropped by it, the threshold being 20 for an
\* episode discussion and 50 otherwise; so 0 comments and threshold comments
\* pass, and 20..49 comments pass for an episode post and not for another.
C10_CountStage ==
    flt_pc = "out" =>
        \A i \in 1..Len(flt_in) :
            LET p == flt_in[i]
                threshold == IF _is_episode_discussion(p) THEN 20 ELSE 50
            IN  flt_log[i] \notin {1, 2} =>
                  /\ flt_log[i] = 3 <=> (0 < p.num_comments /\ p.num_comments < threshold)
                  /\ p.num_comments = 0 => flt_log[i] # 3
                  /\ p.num_comments = threshold => flt_log[i] # 3
                  /\ (p.title \in {T_EPISODE, T_SEASON} /\ p.num_comments \in 20..49)
                        => flt_log[i] # 3
                  /\ (p.title \in {T_PLAIN, T_NEARMISS} /\ p.flair \in {F_NONE, F_DISCUSSION}
                        /\ p.num_comments \in 20..49) => flt_log[i] = 3

\* an episode post and another post, both with 20 comments: the first is kept,
\* the second dropped by the count stage
C10_Witness ==
    /\ flt_pc = "out"
    /\ \E i, j \in 1..Len(flt_in) :
          /\ flt_in[i].title = T_EPISODE /\ flt_in[i].num_comments = 20 /\ flt_log[i] = 0
          /\ flt_in[j].title = T_PLAIN /\ flt_in[j].num_comments = 20 /\ flt_log[j] = 3

\* C11: of the posts that reach the engagement-ratio stage, exactly those that
\* are no episode discussion, have score > 0 and have 10 * num_comments < score
\* are dropped by it; an episode post and a post with score <= 0 is never
\* dropped by this stage, whatever its comment count.
C11_RatioStage ==
    flt_pc = "out" =>
        \A i \in 1..Len(flt_in) :
            LET p == flt_in[i]
            IN  /\ flt_log[i] \notin {1, 2, 3} =>
                      (flt_log[i] = 4 <=> /\ ~ _is_episode_discussion(p)
                                          /\ p.score > 0
                                          /\ 10 * p.num_comments < p.score)
                /\ p.score <= 0 => flt_log[i] # 4
                /\ (p.title \in {T_EPISODE, T_SEASON} \/ p.flair = F_EPISODE) => flt_log[i] # 4
                /\ (p.title \in {T_PLAIN, T_NEARMISS} /\ p.flair \in {F_NONE, F_DISCUSSION}
                      /\ p.num_comments \in {0, 50} /\ p.score = 501) => flt_log[i] = 4
                /\ (p.num_comments = 50 /\ p.score = 500) => flt_log[i] # 4

\* a plain post with 50 comments and score 501 went through the keyword,
\* flair and count stages and was dropped by the ratio stage
C11_Witness ==
    /\ flt_pc = "out"
    /\ Len(flt_in) = 1
    /\ flt_in[1].title = T_PLAIN
    /\ flt_in[1].num_comments = 50
    /\ flt_in[1].score = 501
    /\ flt_log[1] = 4
    /\ flt_out = <<>>

----------------------------------------------------------------------------
(* The seen-ID specification: save_seen_ids(L), then load_seen_ids() *)

SvIds == << "a", "b", "c" >>

\* the ID lists: every length up to MAX_SEEN_IDS + MaxOver, the ids cycling
\* through SvIds from an offset, so that neighbours differ
SvLists ==
    { [i \in 1..n |-> StrV(SvIds[((i + off) % 3) + 1])] :
        n \in 0..(MAX_SEEN_IDS + MaxOver), off \in 0..2 }

\* the file before the save: missing, or holding an older list
SvFiles ==
    { [exists |-> FALSE, text |-> <<>>],
      [exists |-> TRUE, text |-> json_dump(<<StrV("z")>>)] }

InitSeen ==
    /\ sv_in \in SvLists
    /\ sv_loaded = <<>>
    /\ sv_pc = "in"
    /\ seen_file \in SvFiles
    /\ RunIdle
    /\ FltIdle

SeenSave ==
    /\ sv_pc = "in"
    /\ \E outcome \in SaveOutcomes, cut \in {0, 1} :
          /\ seen_file' = save_seen_ids(seen_file, sv_in, outcome, cut)
          /\ sv_pc' = IF outcome = "ok" THEN "saved" ELSE "save_failed"
    /\ UNCHANGED << sv_in, sv_loaded, run_vars, flt_vars >>

SeenLoad ==
    /\ sv_pc \in {"saved", "save_failed"}
    /\ sv_loaded' = load_seen_ids(seen_file)
    /\ sv_pc' = IF sv_pc = "saved" THEN "loaded" ELSE "loaded_after_failure"
    /\ UNCHANGED << sv_in, seen_file, run_vars, flt_vars >>

NextSeen == SeenSave \/ SeenLoad

SpecSeen == InitSeen /\ [][NextSeen]_vars

\* C7: load_seen_ids() after a successful save_seen_ids(L) returns L when
\* len(L) <= 200 and the last 200 elements of L, in order, when len(L) > 200;
\* the saved store never holds more than 200 entries.
C7_SaveLoadRoundTrip ==
    /\ sv_pc = "loaded" =>
          /\ Len(sv_in) <= 200 => sv_loaded = sv_in
          /\ Len(sv_in) > 200 =>
                /\ Len(sv_loaded) = 200
                /\ \A i \in 1..200 : sv_loaded[i] = sv_in[Len(sv_in) - 200 + i]
    /\ sv_pc \in {"saved", "loaded"} => Len(load_seen_ids(seen_file)) <= 200

\* a list longer than 200 was saved and loaded back
C7_Witness ==
    /\ sv_pc = "loaded"
    /\ Len(sv_in) = 202
    /\ Len(sv_loaded) = 200
    /\ sv_loaded[1] # sv_in[1]

----------------------------------------------------------------------------
(* The feature specification: _enrich_posts_for_template applied to the     *)
(* list render() is given, one post with the comments extract_comments      *)
(* left on it                                                               *)

\* the parts of the run state a specification of one stage leaves at rest
StageAtRest ==
    /\ feed = <<>>
    /\ raw_xml = <<>>
    /\ metrics = INITIAL_METRICS
    /\ seen_file = [exists |-> FALSE, text |-> <<>>]
    /\ claude_file = [exists |-> FALSE, lines |-> <<>>]
    /\ digest = [latest |-> "none", ids |-> <<>>, error_txt |-> FALSE]
    /\ saved = NO_ARTIFACT
    /\ runs = 0
    /\ FltIdle
    /\ SvIdle

FtBodies ==
    { B_EMPTY, B_LOVED, B_HATED, B_OVERRATED, B_AGREE, B_DISAGREE, B_HOWEVER,
      B_BEST, B_YES_NO, B_PRAISE, B_PAN, B_NAH }

FtScores == { 1, 5 }

\* comment lists as extract_comments leaves them: at most
\* MAX_COMMENTS_PER_POST comments, in descending order of score
FtCommentLists ==
    UNION { { c \in [1..n -> [score : FtScores, body : FtBodies]] :
                \A i \in 1..(n - 1) : c[i].score >= c[i + 1].score } :
            n \in 0..MAX_COMMENTS_PER_POST }

InitFeatures ==
    /\ pc = "derive"
    /\ \E c \in FtCommentLists :
          posts = << [NewPost("t3_a", T_PLAIN) EXCEPT !.has_comments = TRUE, !.comments = c] >>
    /\ pre = [features |-> <<>>]
    /\ log = INITIAL_LOG
    /\ StageAtRest

DeriveFeatures ==
    /\ pc = "derive"
    /\ pre' = [features |-> posts]
    /\ posts' = _enrich_posts_for_template(posts)
    /\ pc' = "derived"
    /\ UNCHANGED << feed, raw_xml, metrics, log, seen_file, claude_file, digest, saved,
                    runs, flt_vars, sv_vars >>

NextFeatures == DeriveFeatures

SpecFeatures == InitFeatures /\ [][NextFeatures]_vars

----------------------------------------------------------------------------
(* Claims about feature derivation, checked under SpecFeatures *)

\* the comments the post had when derivation started
FtInput == pre.features[1].comments

FtPos == keyword_hits(FtInput, POSITIVE_WORDS)

FtNeg == keyword_hits(FtInput, NEGATIVE_WORDS)

FtMix == keyword_hits(FtInput, MIXED_WORDS)

\* C12: the sentiment label is Neutral when there are no comments or
\* pos + neg + mix = 0; otherwise Positive if pos > 2*neg and pos > mix; else
\* Negative if neg > 2*pos and neg > mix; else Mixed if mix >= pos and
\* mix >= neg; else Mixed if |pos - neg| <= 2; else Positive if pos > neg, else
\* Negative.
C12_SentimentDecisionOrder ==
    pc = "derived" =>
        LET pos == FtPos
            neg == FtNeg
            mix == FtMix
            label == posts[1].sentiment
        IN  /\ (FtInput = <<>> \/ pos + neg + mix = 0) => label = "Neutral discussion"
            /\ (FtInput # <<>> /\ pos + neg + mix > 0) =>
                  CASE pos > 2 * neg /\ pos > mix -> label = "Positive vibes"
                    [] ~(pos > 2 * neg /\ pos > mix) /\ neg > 2 * pos /\ neg > mix ->
                          label = "Critical reception"
                    [] OTHER ->
                          IF mix >= pos /\ mix >= neg THEN label = "Mixed reactions"
                          ELSE IF pos - neg <= 2 /\ neg - pos <= 2 THEN label = "Mixed reactions"
                          ELSE IF pos > neg THEN label = "Positive vibes"
                          ELSE label = "Critical reception"
            /\ FtInput = << [score |-> 5, body |-> B_LOVED] >> => label = "Positive vibes"
            /\ FtInput = << [score |-> 5, body |-> B_HATED] >> => label = "Critical reception"

\* three comments with 3 positive, 1 negative and 2 mixed hits, where the
\* order of the tests decides: Positive by the first test, although the
\* |pos - neg| <= 2 test would say Mixed
C12_Witness ==
    /\ pc = "derived"
    /\ Len(FtInput) = 3
    /\ FtPos = 3 /\ FtNeg = 1 /\ FtMix = 2
    /\ posts[1].sentiment = "Positive vibes"

FtAgree == keyword_hits(FtInput, agree_words)

FtDisagree == keyword_hits(FtInput, disagree_words)

C14_OneCatalystFirstMax ==
    pc = "derived" =>
        LET cs == posts[1].comments
            flagged == { i \in 1..Len(cs) : cs[i].is_catalyst }
        IN  /\ Len(cs) = Len(FtInput)
            /\ \A i \in 1..Len(cs) :
                  cs[i].score = FtInput[i].score /\ cs[i].body = FtInput[i].body
            /\ Len(FtInput) = 0 => flagged = {}
            /\ Len(FtInput) > 0 =>
                  /\ Cardinality(flagged) = 1
                  /\ \A i \in flagged :
                        /\ \A j \in 1..Len(cs) : cs[j].score <= cs[i].score
                        /\ \A j \in 1..(i - 1) : cs[j].score < cs[i].score

\* three comments, the first two tied at the highest score: the first one
\* carries the flag
C14_Witness ==
    /\ pc = "derived"
    /\ Len(FtInput) = 3
    /\ FtInput[1].score = 5 /\ FtInput[2].score = 5 /\ FtInput[3].score = 1
    /\ posts[1].comments[1].is_catalyst
    /\ ~posts[1].comments[2].is_catalyst
    /\ ~posts[1].comments[3].is_catalyst

----------------------------------------------------------------------------
(* The extraction specification: extract_comments applied to one post list *)

\* longest list handed to extract_comments in the extraction specification
MaxExtract == 2

XIds == << "t3_a", "t3_b", "t3_c" >>

XPostLists == { [i \in 1..n |-> NewPost(XIds[i], T_PLAIN)] : n \in 0..MaxExtract }

Filler(n) == [i \in 1..n |-> "x"]

\* a markdown link, [t](u)
LINK == << "[", "t", "]", "(", "u", ")" >>

T1(score, body) == [kind |-> "t1", score |-> score, body |-> body]

\* what the comments endpoint answers for one post: bodies at, just over and
\* well over the limit, with a link at the start and with a link across the cut
XAnswers ==
    { [outcome |-> "failed", children |-> <<>>],
      [outcome |-> "not_a_thread", children |-> <<>>],
      [outcome |-> "ok", children |-> <<>>],
      [outcome |-> "ok", children |-> << T1(3, Filler(BODY_LIMIT + 1)) >>],
      [outcome |-> "ok", children |-> << T1(4, Filler(BODY_LIMIT + 5)) >>],
      [outcome |-> "ok", children |-> << T1(5, Filler(BODY_LIMIT - 4) \o LINK \o Filler(5)) >>],
      [outcome |-> "ok", children |-> << T1(2, LINK \o Filler(BODY_LIMIT)) >>],
      [outcome |-> "ok",
       children |-> << T1(3, LINK \o B_LOVED),
                       [kind |-> "more", score |-> 0, body |-> B_EMPTY],
                       T1(9, Filler(BODY_LIMIT)),
                       T1(9, B_AGREE),
                       T1(1, B_HATED) >>] }

InitExtract ==
    /\ pc = "extract"
    /\ posts \in XPostLists
    /\ pre = [posts |-> <<>>, answers |-> <<>>, artifact |-> "pending"]
    /\ log = INITIAL_LOG
    /\ StageAtRest

\* extract_comments(posts): the loop, then the artifact write; the posts are
\* updated in place whether or not the write raises
ExtractCall ==
    /\ pc = "extract"
    /\ \E answers \in [1..Len(posts) -> XAnswers], artifact \in ArtifactOutcomes :
          /\ pre' = [posts |-> posts, answers |-> answers, artifact |-> artifact]
          /\ posts' = extract_comments(posts, answers)
          /\ log' = [log EXCEPT !.comments =
                        IF extract_comments_raises(answers, artifact) THEN "raised" ELSE "ok"]
    /\ pc' = "extracted"
    /\ UNCHANGED << feed, raw_xml, metrics, seen_file, claude_file, digest, saved,
                    runs, flt_vars, sv_vars >>

NextExtract == ExtractCall

SpecExtract == InitExtract /\ [][NextExtract]_vars

----------------------------------------------------------------------------
(* Claims about extract_comments, checked under SpecExtract *)

\* C15 as stated: every comment attached to a post has a body of at most 500
\* characters.
C15_BodyAtMost500 ==
    pc = "extracted" =>
        \A i \in 1..Len(posts) : \A k \in 1..Len(posts[i].comments) :
            Len(posts[i].comments[k].body) <= 500

\* C15 amended: every comment attached to a post has a body of at most 503
\* characters (the first 500 of the original and the "..." mark, less what
\* link rewriting takes out), and of at most 500 when no original body of the
\* post's listing was longer than 500.
C15_BodyAtMost503 ==
    pc = "extracted" =>
        \A i \in 1..Len(posts) :
            LET children == pre.answers[i].children
            IN  /\ \A k \in 1..Len(posts[i].comments) :
                      Len(posts[i].comments[k].body) <= 503
                /\ (\A c \in 1..Len(children) : Len(children[c].body) <= 500) =>
                      \A k \in 1..Len(posts[i].comments) :
                          Len(posts[i].comments[k].body) <= 500

\* a comment whose original body had 501 characters is attached with 503
C15_Witness ==
    /\ pc = "extracted"
    /\ Len(posts) = 1
    /\ pre.answers[1].children = << T1(3, Filler(501)) >>
    /\ Len(posts[1].comments) = 1
    /\ Len(posts[1].comments[1].body) = 503
    /\ SubSeq(posts[1].comments[1].body, 501, 503) = ELLIPSIS

\* the number of children of kind t1 in the listing of post i
XCommentCount(i) == Len(SelectSeq(pre.answers[i].children, IsT1))

\* C17: a failed request for the comments of one post never raises out of
\* extract_comments (the stage raises only when its artifact write fails);
\* that post gets an empty comment list and comments_degraded, every other
\* post is still processed, and the posts are the same posts in the same order.
C17_PostFailureStaysLocal ==
    pc = "extracted" =>
        /\ log.comments = "raised" => pre.artifact = "failed"
        /\ pre.artifact = "written" => log.comments = "ok"
        /\ Len(posts) = Len(pre.posts)
        /\ \A i \in 1..Len(posts) :
              /\ posts[i].id = pre.posts[i].id
              /\ posts[i].title = pre.posts[i].title
              /\ pre.answers[i].outcome = "failed" =>
                    /\ posts[i].has_comments
                    /\ posts[i].comments = <<>>
                    /\ posts[i].comments_degraded
              /\ pre.answers[i].outcome = "ok" =>
                    /\ posts[i].has_comments
                    /\ ~posts[i].comments_degraded
                    /\ Len(posts[i].comments) =
                          (IF XCommentCount(i) < 3 THEN XCommentCount(i) ELSE 3)
              /\ pre.answers[i].outcome = "not_a_thread" => posts[i] = pre.posts[i]

\* the request for the first of two posts failed, the second post got its
\* three top comments, and the stage returned
C17_Witness ==
    /\ pc = "extracted"
    /\ log.comments = "ok"
    /\ Len(posts) = 2
    /\ pre.answers[1].outcome = "failed"
    /\ posts[1].comments_degraded /\ posts[1].comments = <<>>
    /\ pre.answers[2].outcome = "ok"
    /\ Len(posts[2].comments) = 3
    /\ ~posts[2].comments_degraded

----------------------------------------------------------------------------
(* The memory specification: update_memory called by one run after another *)

\* the number of runs in the memory specification
MaxMemoryRuns == 3

\* the memory file after k runs: the head, the block of the last run and
\* k history entries, the newest first
HistoryFile(k) ==
    [ exists |-> TRUE,
      lines |-> SubSeq(INITIAL_CLAUDE, 1, 11) \o LastRunBlock(EARLIER_METRICS, 0)
                    \o <<LHistoryHdr>>
                    \o [i \in 1..k |-> HistoryEntry(EARLIER_METRICS, 1 - i)] ]

\* The memory file the first of the runs can find: none, the empty file a
\* failed write left, and the file after 1, 29 and 30 runs.
MemoryFiles ==
    { [exists |-> FALSE, lines |-> <<>>],
      [exists |-> TRUE, lines |-> <<>>],
      HistoryFile(1),
      HistoryFile(HISTORY_LIMIT - 1),
      HistoryFile(HISTORY_LIMIT) }

\* the metrics a run hands to update_memory
MemoryMetrics ==
    { EARLIER_METRICS,
      [EARLIER_METRICS EXCEPT !.posts_in_digest = 0, !.posts_after_filter = 0,
                              !.comments_success = 0, !.comments_total = 0] }

InitMemory ==
    /\ pc = "update_memory"
    /\ runs = 0
    /\ posts \in XPostLists
    /\ claude_file \in MemoryFiles
    /\ seen_file = [exists |-> FALSE, text |-> <<>>]
    /\ pre = [seen_file |-> seen_file, claude_file |-> claude_file]
    /\ metrics = INITIAL_METRICS
    /\ log = INITIAL_LOG
    /\ feed = <<>>
    /\ raw_xml = <<>>
    /\ digest = [latest |-> "none", ids |-> <<>>, error_txt |-> FALSE]
    /\ saved = NO_ARTIFACT
    /\ FltIdle
    /\ SvIdle

\* update_memory(posts, run_metrics) of the next run: the seen IDs are saved
\* and the memory file is rewritten, each with its failures swallowed
MemoryUpdate ==
    /\ pc = "update_memory"
    /\ runs < MaxMemoryRuns
    /\ \E m \in MemoryMetrics, seen_outcome \in SaveOutcomes, cut \in {0, 1},
          history_outcome \in HistoryOutcomes :
          /\ (seen_outcome # "write_failed") => cut = 0
          /\ (history_outcome = "failed_after_create") => ~claude_file.exists
          /\ seen_file' = update_seen(seen_file, posts, seen_outcome, cut)
          /\ claude_file' = update_claude(claude_file, m, runs + 1, history_outcome)
          /\ metrics' = m
          /\ log' = [log EXCEPT !.seen_save = seen_outcome, !.history = history_outcome]
    /\ pre' = [seen_file |-> seen_file, claude_file |-> claude_file]
    /\ runs' = runs + 1
    /\ UNCHANGED << pc, posts, feed, raw_xml, digest, saved, flt_vars, sv_vars >>

NextMemory == MemoryUpdate

SpecMemory == InitMemory /\ [][NextMemory]_vars

----------------------------------------------------------------------------
(* Claims about the memory file, checked under SpecMemory *)

\* the entries of the "Run History" block of the file now, and before the
\* last update
HistoryNow == history_entries(claude_file.lines)

HistoryBefore == history_entries(pre.claude_file.lines)

\* the newest entry is that of the last run, the others are the earlier
\* entries in their order, cut at 30
NewestFirstCapped ==
    /\ Len(HistoryNow) >= 1
    /\ Len(HistoryNow) <= 30
    /\ Len(HistoryNow) = (IF Len(HistoryBefore) + 1 < 30 THEN Len(HistoryBefore) + 1 ELSE 30)
    /\ HistoryNow[1] = HistoryEntry(metrics, runs)
    /\ \A i \in 2..Len(HistoryNow) : HistoryNow[i] = HistoryBefore[i - 1]

----------------------------------------------------------------------------
(* The two-run specification: the scheduler starts one run after another.   *)
(* The stages are those of the orchestrator; the answers of the endpoints   *)
(* are narrowed to those that decide which posts a run shows and saves.     *)

\* the number of runs in the two-run specification
MaxRuns == 2

\* the feeds of the day: the same entries may come again
RepeatFeeds == { <<E_A>>, <<E_B, E_A>> }

\* enrichment answers: one that only the episode post gets through the
\* filter with, one that every post gets through with
RepeatEnrichAnswers ==
    { [ok |-> TRUE, score |-> 10, num_comments |-> 25, flair |-> F_NONE],
      [ok |-> TRUE, score |-> 100, num_comments |-> 60, flair |-> F_DISCUSSION] }

RepeatCommentAnswers ==
    { [outcome |-> "ok", children |-> << [kind |-> "t1", score |-> 3, body |-> B_LOVED] >>] }

\* the store the first run finds: none, or a hand-edited list with a nested
\* array in it
RepeatSeenFiles ==
    { [exists |-> FALSE, text |-> <<>>],
      [exists |-> TRUE, text |-> <<TokLB, [t |-> "arr", v |-> ""], TokRB>>] }

InitRepeat ==
    /\ pc = "idle"
    /\ runs = 0
    /\ feed = <<>>
    /\ raw_xml = <<>>
    /\ posts = <<>>
    /\ metrics = INITIAL_METRICS
    /\ log = INITIAL_LOG
    /\ seen_file \in RepeatSeenFiles
    /\ claude_file = [exists |-> FALSE, lines |-> <<>>]
    /\ pre = StartSnapshot(seen_file, claude_file)
    /\ digest = [latest |-> "none", ids |-> <<>>, error_txt |-> FALSE]
    /\ saved = NO_ARTIFACT
    /\ FltIdle
    /\ SvIdle

\* scheduler.run_job: the first run, and the next run once the one before
\* has returned or died
RunAgain ==
    /\ runs < MaxRuns
    /\ StartRunAt({"idle", "done", "crashed"}, RepeatFeeds)

RepeatFilter == FilterStage(RepeatEnrichAnswers)

RepeatComments == CommentsStage(RepeatCommentAnswers)

RepeatMemory == MemoryStage(SaveOutcomes, {"ok"})

NextRepeat ==
    \/ RunAgain
    \/ FetchOk
    \/ FetchRaised
    \/ ParseOk
    \/ ParseRaised
    \/ Dedup
    \/ RepeatFilter
    \/ RepeatComments
    \/ RenderOk
    \/ RenderRaised
    \/ RepeatMemory
    \/ SaveMetrics
    \/ SaveMetricsRaised

SpecRepeat == InitRepeat /\ [][NextRepeat]_vars

----------------------------------------------------------------------------
(* Claims about consecutive runs, checked under SpecRepeat *)

\* the run before this one reached persist-memory with at most 200 posts and
\* its seen-ID save succeeded
EarlierSaved ==
    /\ runs >= 2
    /\ pre.earlier.seen_save = "ok"
    /\ Len(pre.earlier.ids) <= 200

SavedEarlier(id) == \E k \in 1..Len(pre.earlier.ids) : pre.earlier.ids[k] = id

====
